---- MODULE Spec2Model ----
(***************************************************************************)
(* Model of agent_coder (src/main.go): a single-pass command-line program  *)
(* that parses its flags, asks a generative model for a JSON array of      *)
(* {file_name, source_code} objects and writes each one under the output   *)
(* directory.                                                              *)
(*                                                                         *)
(* Text (command-line arguments, the response text, file names, file      *)
(* contents, paths) is a sequence of characters, so that trimming, JSON    *)
(* decoding and path joining are computed, not assumed.  A character is a  *)
(* one-character string where a string of this notation can hold it        *)
(* (printable ASCII but the grave accent, tab, line feed, form feed,       *)
(* carriage return) and the name of its code point otherwise: "U+0008" is  *)
(* the backspace.                                                          *)
(***************************************************************************)
EXTENDS Naturals, Integers, Sequences, FiniteSets, TLC

VARIABLES
    pc,           \* position of main: the line range about to run
    args,         \* os.Args[1:]
    apiKey,       \* *apiKey after the first flag.Parse
    outputDir,    \* outputDir (main.go:29)
    prompt,       \* the line read from standard input (main.go:42)
    remote,       \* what the remote generator will answer (environment)
    resp,         \* the answer received by GenerateContent
    parseOk,      \* err == nil at main.go:107
    files,        \* var files []File
    idx,          \* loop position of "for i, file := range files" (0-based)
    dirs,         \* filesystem: the directories that exist
    disk,         \* filesystem: regular files, path -> content
    fs0,          \* the filesystem the run started in: [dirs, disk]
    stdout,       \* the messages printed so far
    exitCode      \* process exit status: -1 running, 0 normal, 2 flag error/panic

vars == <<pc, args, apiKey, outputDir, prompt, remote, resp, parseOk, files, idx,
          dirs, disk, fs0, stdout, exitCode>>

-----------------------------------------------------------------------------
(* Bounds of the explored inputs *)

MaxArgs == 2
MaxFiles == 2
MaxPad == 1

-----------------------------------------------------------------------------
(* Text helpers *)

IndexOf(s, c, from) ==
    LET hits == {i \in from..Len(s) : s[i] = c}
    IN IF hits = {} THEN 0 ELSE CHOOSE i \in hits : \A j \in hits : i <= j

LastIndexOf(s, c) ==
    LET hits == {i \in 1..Len(s) : s[i] = c}
    IN IF hits = {} THEN 0 ELSE CHOOSE i \in hits : \A j \in hits : i >= j

Drop(s, n) == SubSeq(s, n + 1, Len(s))

sKey == <<"k","e","y">>
sOutput == <<"o","u","t","p","u","t">>
sHelp == <<"h","e","l","p">>
sH == <<"h">>
sDot == <<".">>
sDotDot == <<".",".">>
sSlash == <<"/">>
sFileName == <<"f","i","l","e","_","n","a","m","e">>
sSourceCode == <<"s","o","u","r","c","e","_","c","o","d","e">>

-----------------------------------------------------------------------------
(* flag.Parse of the standard flag package, as main calls it               *)
(* (flag.CommandLine, ExitOnError).  formal is the set of defined flag     *)
(* names; all of main's flags are string flags.                            *)
(* Result: st = "ok" | "help" (exit 0) | "error" (exit 2),                 *)
(*         vals = function from the flags that were set to their value.    *)

RECURSIVE FlagParseFrom(_, _, _)
FlagParseFrom(as, formal, vals) ==
    IF as = <<>> THEN [st |-> "ok", vals |-> vals]
    ELSE
      LET s == Head(as) IN
      IF Len(s) < 2 \/ s[1] # "-" THEN [st |-> "ok", vals |-> vals]
      ELSE IF s = <<"-","-">> THEN [st |-> "ok", vals |-> vals]
      ELSE
        LET numMinuses == IF s[2] = "-" THEN 2 ELSE 1
            name0 == Drop(s, numMinuses)
        IN
        IF Len(name0) = 0 \/ name0[1] = "-" \/ name0[1] = "="
        THEN [st |-> "error", vals |-> vals]
        ELSE
          LET eq == IndexOf(name0, "=", 2)
              hasInline == eq # 0
              name == IF hasInline THEN SubSeq(name0, 1, eq - 1) ELSE name0
              rest == Tail(as)
          IN
          IF name \notin formal
          THEN IF name = sHelp \/ name = sH
               THEN [st |-> "help", vals |-> vals]
               ELSE [st |-> "error", vals |-> vals]
          ELSE IF hasInline
               THEN FlagParseFrom(rest, formal, (name :> Drop(name0, eq)) @@ vals)
          ELSE IF rest # <<>>
               THEN FlagParseFrom(Tail(rest), formal, (name :> Head(rest)) @@ vals)
          ELSE [st |-> "error", vals |-> vals]

FlagParse(as, formal) == FlagParseFrom(as, formal, <<>>)

FlagValue(r, name, default) ==
    IF name \in DOMAIN r.vals THEN r.vals[name] ELSE default

-----------------------------------------------------------------------------
(* path/filepath on a Unix build: Clean, Join, Dir *)

RECURSIVE SplitFrom(_, _)
SplitFrom(s, cur) ==
    IF s = <<>> THEN <<cur>>
    ELSE IF Head(s) = "/" THEN <<cur>> \o SplitFrom(Tail(s), <<>>)
    ELSE SplitFrom(Tail(s), Append(cur, Head(s)))

Split(s) == SplitFrom(s, <<>>)

RECURSIVE CleanSegs(_, _, _)
CleanSegs(segs, rooted, out) ==
    IF segs = <<>> THEN out
    ELSE
      LET g == Head(segs) IN
      IF g = <<>> \/ g = sDot THEN CleanSegs(Tail(segs), rooted, out)
      ELSE IF g = sDotDot
           THEN IF out # <<>> /\ out[Len(out)] # sDotDot
                THEN CleanSegs(Tail(segs), rooted, SubSeq(out, 1, Len(out) - 1))
                ELSE IF rooted THEN CleanSegs(Tail(segs), rooted, out)
                ELSE CleanSegs(Tail(segs), rooted, Append(out, g))
      ELSE CleanSegs(Tail(segs), rooted, Append(out, g))

RECURSIVE JoinSegs(_)
JoinSegs(segs) ==
    IF segs = <<>> THEN <<>>
    ELSE IF Len(segs) = 1 THEN segs[1]
    ELSE segs[1] \o sSlash \o JoinSegs(Tail(segs))

Clean(path) ==
    LET rooted == path # <<>> /\ path[1] = "/"
        out == CleanSegs(Split(path), rooted, <<>>)
    IN IF rooted THEN sSlash \o JoinSegs(out)
       ELSE IF out = <<>> THEN sDot ELSE JoinSegs(out)

\* mutant: the ".." segments of the second element are dropped before joining
Join_DropDotDot(a, b) ==
    Clean(a \o sSlash \o JoinSegs(SelectSeq(Split(b), LAMBDA g : g # sDotDot)))

\* filepath.Join(a, b): empty elements are ignored, the rest joined and cleaned
Join(a, b) ==
    IF a = <<>> /\ b = <<>> THEN <<>>
    ELSE IF a = <<>> THEN Clean(b)
    ELSE IF b = <<>> THEN Clean(a)
    ELSE Clean(a \o sSlash \o b)

\* filepath.Dir(path): all but the last element, cleaned
Dir(path) == Clean(SubSeq(path, 1, LastIndexOf(path, "/")))

-----------------------------------------------------------------------------
(* The filesystem as os.MkdirAll and os.WriteFile see it.  Paths are       *)
(* cleaned, relative to the working directory.  ds is the set of existing  *)
(* directories, dk the function from regular files to their content.       *)

OnlyDotDot(p) == \A k \in 1..Len(Split(p)) : Split(p)[k] = sDotDot

\* the working directory, the root and the ancestors of the working directory exist
IsDir(p, ds) == p \in ds \/ p = sDot \/ p = sSlash \/ (p # <<>> /\ OnlyDotDot(p))

IsFile(p, dk) == p \in DOMAIN dk

\* the path and its ancestors, outermost first
PrefixPaths(p) ==
    LET segs == Split(p)
        first == IF p # <<>> /\ p[1] = "/" THEN 2 ELSE 1
    IN [k \in 1..(Len(segs) - first + 1) |-> JoinSegs(SubSeq(segs, 1, k + first - 1))]

MissingDirs(p, ds) ==
    LET chain == PrefixPaths(p)
    IN SelectSeq(chain, LAMBDA c : ~IsDir(c, ds))

\* os.MkdirAll(path, 0755).  fault = 0: the system calls succeed where the
\* filesystem allows; fault = f > 0: the f-th directory creation is refused
\* (permission denied, disk full, ...), the earlier ones having been made.
MkdirAll(path, ds, dk, fault) ==
    LET missing == MissingDirs(path, ds)
        blocked == \E k \in 1..Len(missing) : IsFile(missing[k], dk)
    IN IF fault > 0
       THEN [err |-> TRUE,
             dirs |-> ds \cup {missing[k] : k \in 1..(fault - 1)}]
       ELSE IF IsDir(path, ds) THEN [err |-> FALSE, dirs |-> ds]
       ELSE IF blocked THEN [err |-> TRUE, dirs |-> ds]
       ELSE [err |-> FALSE, dirs |-> ds \cup {missing[k] : k \in 1..Len(missing)}]

\* the faults MkdirAll(path) can meet: any one of its directory creations
MkdirFaults(path, ds, dk) ==
    LET missing == MissingDirs(path, ds)
        free == {k \in 1..Len(missing) : \A j \in 1..k : ~IsFile(missing[j], dk)}
    IN {0} \cup {1} \cup free

\* mutant: the file is opened without O_TRUNC and the data lands after what is there
WriteFile_Append(path, data, ds, dk, fault, n) ==
    IF IsDir(path, ds) \/ ~IsDir(Dir(path), ds) \/ fault = "open"
    THEN [err |-> TRUE, disk |-> dk]
    ELSE IF fault = "short"
    THEN [err |-> TRUE, disk |-> (path :> SubSeq(data, 1, n)) @@ dk]
    ELSE [err |-> fault = "close",
          disk |-> (path :> ((IF path \in DOMAIN dk THEN dk[path] ELSE <<>>) \o data)) @@ dk]

\* os.WriteFile(path, data, 0644): open with O_WRONLY|O_CREATE|O_TRUNC, write,
\* close.  fault = "none" | "open" (the open is refused: nothing changes) |
\* "short" (the write fails after n bytes: the file holds that prefix) |
\* "close" (the write stores all the data and the close reports an error).
WriteFile(path, data, ds, dk, fault, n) ==
    IF IsDir(path, ds) \/ ~IsDir(Dir(path), ds) \/ fault = "open"
    THEN [err |-> TRUE, disk |-> dk]
    ELSE IF fault = "short"
    THEN [err |-> TRUE, disk |-> (path :> SubSeq(data, 1, n)) @@ dk]
    ELSE [err |-> fault = "close", disk |-> (path :> data) @@ dk]

-----------------------------------------------------------------------------
(* strings.TrimSpace: leading and trailing Unicode white space is removed  *)
(* (unicode.IsSpace).                                                      *)

UnicodeSpace ==
    {" ", "\t", "\n", "\r", "\f", "U+000B", "U+0085", "U+00A0", "U+1680",
     "U+2000", "U+2001", "U+2002", "U+2003", "U+2004", "U+2005", "U+2006",
     "U+2007", "U+2008", "U+2009", "U+200A", "U+2028", "U+2029", "U+202F",
     "U+205F", "U+3000"}

RECURSIVE TrimLeft(_)
TrimLeft(s) ==
    IF s # <<>> /\ Head(s) \in UnicodeSpace THEN TrimLeft(Tail(s)) ELSE s

RECURSIVE TrimRight(_)
TrimRight(s) ==
    IF s # <<>> /\ s[Len(s)] \in UnicodeSpace
    THEN TrimRight(SubSeq(s, 1, Len(s) - 1)) ELSE s

\* mutant: only the leading white space is removed
TrimSpace_LeftOnly(s) == TrimLeft(s)

TrimSpace(s) == TrimRight(TrimLeft(s))

-----------------------------------------------------------------------------
(* encoding/json: json.Unmarshal(data, &files) with files a []File.        *)
(* First the text is read as a JSON value (a syntax error rejects it),     *)
(* then the value is stored into the slice.                                *)

JSONSpace == {" ", "\t", "\n", "\r"}
Digits == {"0","1","2","3","4","5","6","7","8","9"}

HexUpper == <<"0","1","2","3","4","5","6","7","8","9","A","B","C","D","E","F">>
HexLower == <<"0","1","2","3","4","5","6","7","8","9","a","b","c","d","e","f">>

\* the value of a hexadecimal digit, -1 for any other character
HexValue(c) ==
    IF \E k \in 1..16 : HexUpper[k] = c THEN (CHOOSE k \in 1..16 : HexUpper[k] = c) - 1
    ELSE IF \E k \in 1..16 : HexLower[k] = c THEN (CHOOSE k \in 1..16 : HexLower[k] = c) - 1
    ELSE -1

\* n in hexadecimal, on w digits at least
RECURSIVE HexString(_, _)
HexString(n, w) ==
    IF n = 0 /\ w <= 0 THEN ""
    ELSE HexString(n \div 16, w - 1) \o HexUpper[(n % 16) + 1]

\* the printable ASCII characters, from the space (32) to the tilde (126)
\* (the grave accent, 96, goes by the name of its code point)
Printable ==
    <<" ","!","\"","#","$","%","&","'","(",")","*","+",",","-",".","/",
      "0","1","2","3","4","5","6","7","8","9",":",";","<","=",">","?",
      "@","A","B","C","D","E","F","G","H","I","J","K","L","M","N","O",
      "P","Q","R","S","T","U","V","W","X","Y","Z","[","\\","]","^","_",
      "U+0060","a","b","c","d","e","f","g","h","i","j","k","l","m","n","o",
      "p","q","r","s","t","u","v","w","x","y","z","{","|","}","~">>

\* the character of code point n
CharOf(n) ==
    IF n \in 32..126 THEN Printable[n - 31]
    ELSE IF n = 9 THEN "\t"
    ELSE IF n = 10 THEN "\n"
    ELSE IF n = 12 THEN "\f"
    ELSE IF n = 13 THEN "\r"
    ELSE "U+" \o HexString(n, 4)

\* a string literal holds no raw character below the space
ControlChars == {CharOf(n) : n \in 0..31}

ReplacementChar == 65533

UpperCase == <<"A","B","C","D","E","F","G","H","I","J","K","L","M",
               "N","O","P","Q","R","S","T","U","V","W","X","Y","Z">>
LowerCase == <<"a","b","c","d","e","f","g","h","i","j","k","l","m",
               "n","o","p","q","r","s","t","u","v","w","x","y","z">>

\* the letters that differ by case only are one letter to the decoder, and so
\* are the long s (U+017F) and s, the Kelvin sign (U+212A) and k
ToLower(c) ==
    IF \E k \in 1..Len(UpperCase) : UpperCase[k] = c
    THEN LowerCase[CHOOSE k \in 1..Len(UpperCase) : UpperCase[k] = c]
    ELSE IF c = "U+017F" THEN "s"
    ELSE IF c = "U+212A" THEN "k"
    ELSE c

FoldName(s) == [k \in 1..Len(s) |-> ToLower(s[k])]

Fail == [ok |-> FALSE, i |-> 0, v |-> [t |-> "none", s |-> <<>>, items |-> <<>>]]
Value(t, s, items) == [t |-> t, s |-> s, items |-> items]
Got(i, v) == [ok |-> TRUE, i |-> i, v |-> v]

RECURSIVE SkipWS(_, _)
SkipWS(s, i) ==
    IF i <= Len(s) /\ s[i] \in JSONSpace THEN SkipWS(s, i + 1) ELSE i

HasAt(s, i, word) ==
    /\ i + Len(word) - 1 <= Len(s)
    /\ SubSeq(s, i, i + Len(word) - 1) = word

RECURSIVE SkipDigits(_, _)
SkipDigits(s, i) ==
    IF i <= Len(s) /\ s[i] \in Digits THEN SkipDigits(s, i + 1) ELSE i

\* the one-letter escapes of a JSON string: the character that backslash-c
\* stands for, <<>> when c is no such letter (\uXXXX is read by getu4)
Unescape(c) ==
    CASE c = "\"" -> <<"\"">>
      [] c = "\\" -> <<"\\">>
      [] c = "/" -> <<"/">>
      [] c = "b" -> <<CharOf(8)>>
      [] c = "f" -> <<"\f">>
      [] c = "n" -> <<"\n">>
      [] c = "r" -> <<"\r">>
      [] c = "t" -> <<"\t">>
      [] OTHER -> <<>>

\* getu4: the code unit of the escape \uXXXX that starts at s[i], -1 when
\* s[i..i+5] is not such an escape
getu4(s, i) ==
    IF /\ i + 5 <= Len(s)
       /\ s[i] = "\\"
       /\ s[i + 1] = "u"
       /\ \A k \in 2..5 : HexValue(s[i + k]) >= 0
    THEN 4096 * HexValue(s[i + 2]) + 256 * HexValue(s[i + 3])
            + 16 * HexValue(s[i + 4]) + HexValue(s[i + 5])
    ELSE -1

\* utf16.IsSurrogate
IsSurrogate(r) == 55296 <= r /\ r < 57344

\* utf16.DecodeRune: the code point of a surrogate pair, the replacement
\* character when r1, r2 are not a high and a low surrogate
DecodeRune(r1, r2) ==
    IF 55296 <= r1 /\ r1 < 56320 /\ 56320 <= r2 /\ r2 < 57344
    THEN (r1 - 55296) * 1024 + (r2 - 56320) + 65536
    ELSE ReplacementChar

RECURSIVE ParseStringBody(_, _, _)
RECURSIVE UnicodeEscape(_, _, _, _, _)

\* s[i] is the character after the opening quote
ParseStringBody(s, i, acc) ==
    IF i > Len(s) THEN Fail
    ELSE IF s[i] = "\"" THEN Got(i + 1, Value("str", acc, <<>>))
    ELSE IF s[i] \in ControlChars THEN Fail
    ELSE IF s[i] = "\\"
         THEN IF i + 1 > Len(s) THEN Fail
              ELSE IF s[i + 1] = "u"
              THEN UnicodeEscape(s, i, acc, getu4(s, i), getu4(s, i + 6))
              ELSE IF Unescape(s[i + 1]) = <<>> THEN Fail
              ELSE ParseStringBody(s, i + 2, acc \o Unescape(s[i + 1]))
    ELSE ParseStringBody(s, i + 1, Append(acc, s[i]))

\* the escape \uXXXX at s[i], of code unit rr; rr1 is the code unit of the
\* escape after it.  A surrogate pair gives one character, a surrogate
\* without its partner the replacement character.
UnicodeEscape(s, i, acc, rr, rr1) ==
    IF rr < 0 THEN Fail
    ELSE IF IsSurrogate(rr) /\ DecodeRune(rr, rr1) # ReplacementChar
    THEN ParseStringBody(s, i + 12, Append(acc, CharOf(DecodeRune(rr, rr1))))
    ELSE IF IsSurrogate(rr)
    THEN ParseStringBody(s, i + 6, Append(acc, CharOf(ReplacementChar)))
    ELSE ParseStringBody(s, i + 6, Append(acc, CharOf(rr)))

\* the parts of a number: -? (0 | [1-9][0-9]*) (. [0-9]+)? ([eE] [+-]? [0-9]+)?
\* each operator returns the index after its part, or 0 when the part is malformed
NumInt(s, a) ==
    IF a <= Len(s) /\ s[a] = "0" THEN a + 1
    ELSE IF a <= Len(s) /\ s[a] \in Digits THEN SkipDigits(s, a)
    ELSE 0

DigitsEnd(b, end) == IF end > b THEN end ELSE 0

NumFrac(s, b) ==
    IF b # 0 /\ b <= Len(s) /\ s[b] = "." THEN DigitsEnd(b + 1, SkipDigits(s, b + 1))
    ELSE b

NumExpDigits(s, d) == DigitsEnd(d, SkipDigits(s, d))

NumExp(s, c) ==
    IF c # 0 /\ c <= Len(s) /\ s[c] \in {"e", "E"}
    THEN NumExpDigits(s, IF c + 1 <= Len(s) /\ s[c + 1] \in {"+", "-"} THEN c + 2 ELSE c + 1)
    ELSE c

NumResult(e) == IF e = 0 THEN Fail ELSE Got(e, Value("num", <<>>, <<>>))

ParseNumber(s, i) ==
    NumResult(NumExp(s, NumFrac(s, NumInt(s, IF s[i] = "-" THEN i + 1 ELSE i))))

RECURSIVE ParseValue(_, _)
RECURSIVE ParseElements(_, _, _)
RECURSIVE ElementsAfter(_, _, _)
RECURSIVE ElementsNext(_, _, _)
RECURSIVE ParseMembers(_, _, _)
RECURSIVE MembersKey(_, _, _)
RECURSIVE MembersColon(_, _, _, _)
RECURSIVE MembersAfter(_, _, _, _)
RECURSIVE MembersNext(_, _, _)

ArrayOpen(s, j) ==
    IF j <= Len(s) /\ s[j] = "]" THEN Got(j + 1, Value("arr", <<>>, <<>>))
    ELSE ParseElements(s, j, <<>>)

ObjectOpen(s, j) ==
    IF j <= Len(s) /\ s[j] = "}" THEN Got(j + 1, Value("obj", <<>>, <<>>))
    ELSE ParseMembers(s, j, <<>>)

\* s[i] starts a value (white space already skipped)
ParseValue(s, i) ==
    IF i > Len(s) THEN Fail
    ELSE IF s[i] = "\"" THEN ParseStringBody(s, i + 1, <<>>)
    ELSE IF s[i] = "[" THEN ArrayOpen(s, SkipWS(s, i + 1))
    ELSE IF s[i] = "{" THEN ObjectOpen(s, SkipWS(s, i + 1))
    ELSE IF HasAt(s, i, <<"n","u","l","l">>) THEN Got(i + 4, Value("null", <<>>, <<>>))
    ELSE IF HasAt(s, i, <<"t","r","u","e">>) THEN Got(i + 4, Value("bool", <<>>, <<>>))
    ELSE IF HasAt(s, i, <<"f","a","l","s","e">>) THEN Got(i + 5, Value("bool", <<>>, <<>>))
    ELSE IF s[i] = "-" \/ s[i] \in Digits THEN ParseNumber(s, i)
    ELSE Fail

\* s[i] starts an element of an array; acc holds the elements before it
ParseElements(s, i, acc) == ElementsAfter(s, acc, ParseValue(s, i))

\* r is the element just read
ElementsAfter(s, acc, r) ==
    IF ~r.ok THEN Fail ELSE ElementsNext(s, SkipWS(s, r.i), Append(acc, r.v))

\* s[j] follows an element: "]" ends the array, "," announces another element
ElementsNext(s, j, items) ==
    IF j > Len(s) THEN Fail
    ELSE IF s[j] = "]" THEN Got(j + 1, Value("arr", <<>>, items))
    ELSE IF s[j] = "," THEN ParseElements(s, SkipWS(s, j + 1), items)
    ELSE Fail

\* s[i] starts a member of an object; acc holds the members before it
ParseMembers(s, i, acc) ==
    IF i > Len(s) \/ s[i] # "\"" THEN Fail
    ELSE MembersKey(s, acc, ParseStringBody(s, i + 1, <<>>))

\* k is the key just read
MembersKey(s, acc, k) ==
    IF ~k.ok THEN Fail ELSE MembersColon(s, acc, k.v.s, SkipWS(s, k.i))

\* s[c] follows the key: it has to be the colon, and a value follows it
MembersColon(s, acc, key, c) ==
    IF c > Len(s) \/ s[c] # ":" THEN Fail
    ELSE MembersAfter(s, acc, key, ParseValue(s, SkipWS(s, c + 1)))

\* r is the value just read
MembersAfter(s, acc, key, r) ==
    IF ~r.ok THEN Fail
    ELSE MembersNext(s, SkipWS(s, r.i), Append(acc, [key |-> key, val |-> r.v]))

\* s[j] follows a member: "}" ends the object, "," announces another member
MembersNext(s, j, items) ==
    IF j > Len(s) THEN Fail
    ELSE IF s[j] = "}" THEN Got(j + 1, Value("obj", <<>>, items))
    ELSE IF s[j] = "," THEN ParseMembers(s, SkipWS(s, j + 1), items)
    ELSE Fail

WholeText(s, r) == IF r.ok /\ SkipWS(s, r.i) = Len(s) + 1 THEN r ELSE Fail

\* the whole text is one JSON value between optional JSON white space
ParseJSON(s) == WholeText(s, ParseValue(s, SkipWS(s, 1)))

ZeroFile == [Name |-> <<>>, Code |-> <<>>]

\* mutant: the two struct tags exchanged
FieldOf_Swapped(key) ==
    IF FoldName(key) = sFileName THEN "Code"
    ELSE IF FoldName(key) = sSourceCode THEN "Name"
    ELSE "none"

\* which field of File (main.go:17-20) an object key names: the tag itself,
\* or else the tag compared without regard to case
FieldOf(key) ==
    IF key = sFileName THEN "Name"
    ELSE IF key = sSourceCode THEN "Code"
    ELSE IF FoldName(key) = sFileName THEN "Name"
    ELSE IF FoldName(key) = sSourceCode THEN "Code"
    ELSE "none"

\* storing one member into the File being filled: r = [ok, f]
StoreMember(r, fld, val) ==
    IF fld = "none" \/ val.t = "null" THEN r
    ELSE IF val.t # "str" THEN [r EXCEPT !.ok = FALSE]
    ELSE IF fld = "Name" THEN [r EXCEPT !.f.Name = val.s]
    ELSE [r EXCEPT !.f.Code = val.s]

\* storing the members of an object, in their order: a later member overrides
RECURSIVE StoreMembers(_, _)
StoreMembers(members, r) ==
    IF members = <<>> THEN r
    ELSE StoreMembers(Tail(members),
                      StoreMember(r, FieldOf(Head(members).key), Head(members).val))

\* mutant: an element of the wrong type is skipped over instead of reported
StoreFile_Lenient(v) ==
    IF v.t = "obj" THEN StoreMembers(v.items, [ok |-> TRUE, f |-> ZeroFile])
    ELSE [ok |-> TRUE, f |-> ZeroFile]

\* storing one element of the array into a File
StoreFile(v) ==
    IF v.t = "obj" THEN StoreMembers(v.items, [ok |-> TRUE, f |-> ZeroFile])
    ELSE IF v.t = "null" THEN [ok |-> TRUE, f |-> ZeroFile]
    ELSE [ok |-> FALSE, f |-> ZeroFile]

\* the slice after all the elements were stored: an element or a field of
\* the wrong type is reported (the first such error is the err returned) and
\* skipped, the decoding goes on with what follows
StoreAll(st) ==
    [ok |-> \A k \in 1..Len(st) : st[k].ok,
     files |-> [k \in 1..Len(st) |-> st[k].f]]

\* storing the JSON value r.v into files, a []File; a text with a syntax
\* error is rejected before anything is stored
StoreValue(r) ==
    IF ~r.ok THEN [ok |-> FALSE, files |-> <<>>]
    ELSE IF r.v.t = "null" THEN [ok |-> TRUE, files |-> <<>>]
    ELSE IF r.v.t # "arr" THEN [ok |-> FALSE, files |-> <<>>]
    ELSE StoreAll([k \in 1..Len(r.v.items) |-> StoreFile(r.v.items[k])])

\* json.Unmarshal([]byte(s), &files): [ok |-> err = nil, files |-> files].
\* A value of the wrong type anywhere makes err non-nil; files then holds what
\* could be stored, and main does not look at it.
Unmarshal(s) == StoreValue(ParseJSON(s))

-----------------------------------------------------------------------------
(* The inputs explored: command lines, answers of the remote generator,    *)
(* and the filesystem the program starts in.                               *)

\* BoundedSeq(S, n): the sequences over S of length at most n
BoundedSeq(S, n) == UNION {[1..k -> S] : k \in 0..n}

ArgTokens ==
    { <<"-","k","e","y">>,                       \* -key
      <<"-","k","e","y","=","K">>,               \* -key=K
      <<"-","k","e","y","=">>,                   \* -key=
      <<"-","o","u","t","p","u","t">>,           \* -output
      <<"-","o","u","t","p","u","t","=","d">>,   \* -output=d
      <<"K">>,
      <<"d">> }

CommandLines == BoundedSeq(ArgTokens, MaxArgs)

BasicCommandLines ==
    { <<>>,
      << <<"-","k","e","y","=","K">> >>,
      << <<"-","k","e","y","=">> >>,
      << <<"-","k","e","y","=","K">>, <<"-","o","u","t","p","u","t","=","d">> >> }

Quote(s) == <<"\"">> \o s \o <<"\"">>

\* the JSON text of one array element: an object with the fields it has
RenderElem(e) ==
    LET n == Quote(sFileName) \o <<":">> \o Quote(e.name)
        c == Quote(sSourceCode) \o <<":">> \o Quote(e.code)
    IN IF e.hasName /\ e.hasCode THEN <<"{">> \o n \o <<",">> \o c \o <<"}">>
       ELSE IF e.hasName THEN <<"{">> \o n \o <<"}">>
       ELSE IF e.hasCode THEN <<"{">> \o c \o <<"}">>
       ELSE <<"{","}">>

RECURSIVE RenderElems(_)
RenderElems(es) ==
    IF es = <<>> THEN <<>>
    ELSE IF Len(es) = 1 THEN RenderElem(es[1])
    ELSE RenderElem(es[1]) \o <<",">> \o RenderElems(Tail(es))

RenderArray(es) == <<"[">> \o RenderElems(es) \o <<"]">>

Elem(name, code) == [hasName |-> TRUE, name |-> name, hasCode |-> TRUE, code |-> code]

Elems ==
    { Elem(<<"a">>, <<"x">>),
      Elem(<<"a">>, <<"y">>),
      Elem(<<".","/","a">>, <<"y">>),
      Elem(<<"d","/","b">>, <<"x">>),
      Elem(<<".",".","/","e">>, <<"x">>),
      [hasName |-> FALSE, name |-> <<>>, hasCode |-> TRUE, code |-> <<"x">>] }

ArrayTexts == {RenderArray(es) : es \in BoundedSeq(Elems, MaxFiles)}

Pads == BoundedSeq({" ", "\f"}, MaxPad)

PaddedTexts ==
    {l \o RenderArray(<<e>>) \o r :
        l \in Pads, r \in Pads, e \in {Elem(<<"a">>, <<"x">>)}}

OneObj == RenderElem(Elem(<<"a">>, <<"x">>))

SpecialTexts ==
    { <<>>,
      <<"n","u","l","l">>,
      OneObj,                                             \* an object, not an array
      <<"[">> \o OneObj,                                  \* truncated array
      <<"[">> \o OneObj \o <<",","1","]">>,               \* an element that is a number
      <<"[","{">> \o Quote(sFileName) \o <<":","1",",">>
          \o Quote(sSourceCode) \o <<":">> \o Quote(<<"x">>) \o <<"}","]">>,
      <<"[","n","u","l","l","]">>,
      <<"[","{">> \o Quote(<<"F","i","l","e","_","N","a","m","e">>) \o <<":">>
          \o Quote(<<"a">>) \o <<","," ">> \o Quote(sSourceCode) \o <<":">>
          \o Quote(<<"\\","n">>) \o <<"}","]">>,
      RenderArray(<<Elem(<<"a">>, <<"x">>), Elem(<<"a","/","c">>, <<"y">>)>>),
      RenderArray(<<Elem(<<".">>, <<"x">>)>>),
      RenderArray(<<Elem(<<"\\","u","0","0","6","1">>,           \* escapes: a,
                         <<"\\","b","\\","u","d","8","3","d",  \* backspace, a pair,
                           "\\","u","D","E","0","0",
                           "\\","u","d","8","0","0">>)>>),     \* a lone surrogate
      RenderArray(<<Elem(<<"a">>, <<"x">>), Elem(<<"a">>, <<"y">>),
                    Elem(<<".","/","a">>, <<"x">>)>>) }

ResponseTexts == ArrayTexts \cup PaddedTexts \cup SpecialTexts

Text(t) == [kind |-> "text", text |-> t]
NoText(k) == [kind |-> k, text |-> <<>>]

\* what GenerateContent can come back with: an error; no candidate; a first
\* candidate without content (Content is nil); a content without parts; a
\* first part that is not text; a first part that is text
Remotes ==
    {NoText("error"), NoText("nocandidates"), NoText("nocontent"), NoText("noparts"),
     NoText("blob")}
        \cup {Text(t) : t \in ResponseTexts}

BasicRemotes ==
    {NoText("error"), NoText("noparts"), Text(RenderArray(<<Elem(<<"d","/","b">>, <<"x">>)>>))}

\* the lines typed at the cue: an empty line (or end of input), a request
Prompts == {<<>>, <<"p">>}

outA == <<"o","u","t","p","u","t","/","a">>

\* the filesystem at start: nothing there; an output directory holding a file
\* "a"; a regular file where the output directory should be
StartFS ==
    { [dirs |-> {}, disk |-> <<>>],
      [dirs |-> {sOutput}, disk |-> (outA :> <<"0">>)],
      [dirs |-> {}, disk |-> (sOutput :> <<"0">>)] }

-----------------------------------------------------------------------------
(* main *)

\* the format strings of main's messages
mKeyRequired == "API key is required"
mClientErr == "Error creating client: %v"
mCue == "Enter your prompt: "
mGenerateErr == "Error generating content: %v"
mNoResponse == "No response received"
mApiResponse == "API Response:"
mParsed == "Successfully parsed %d file(s)"
mOutErr == "Error creating output directory: %v"
mMkdirErr == "Error creating directory for %s: %v"
mWriteErr == "Error writing file %s: %v"
mWritten == "File %d: %s written to %s"
mSummary == "All files have been written to the '%s' directory"

Msg(m, n, name, path) == [msg |-> m, n |-> n, name |-> name, path |-> path]
Say(m) == Msg(m, 0, <<>>, <<>>)

NoResp == NoText("none")

InitWith(cl, rs) ==
    /\ pc = "flags"
    /\ args \in cl
    /\ remote \in rs
    /\ fs0 \in StartFS
    /\ dirs = fs0.dirs
    /\ disk = fs0.disk
    /\ apiKey = <<>>
    /\ outputDir = <<>>
    /\ prompt = <<>>
    /\ resp = NoResp
    /\ parseOk = FALSE
    /\ files = <<>>
    /\ idx = 0
    /\ stdout = <<>>
    /\ exitCode = -1

Init == InitWith(BasicCommandLines, Remotes)

InitFlags == InitWith(CommandLines, BasicRemotes)

\* os.Exit(code) from the flag package, or a panic (code 2)
Exit(code) == pc' = "exit" /\ exitCode' = code

\* return from main
Return == pc' = "done" /\ exitCode' = 0

\* main.go:29: the flag is defined and its default dereferenced at once,
\* before the second flag.Parse could store a value through the pointer
OutputDirFlag(as) == sOutput

\* main.go:25: if *apiKey == ""
KeyMissing(key) == key = <<>>

\* main.go:23-30
ParseFlags ==
    /\ pc = "flags"
    /\ LET first == FlagParse(args, {sKey})
           key == FlagValue(first, sKey, <<>>)
           second == FlagParse(args, {sKey, sOutput})
       IN IF first.st # "ok"
          THEN /\ Exit(IF first.st = "help" THEN 0 ELSE 2)
               /\ UNCHANGED <<apiKey, outputDir, stdout>>
          ELSE IF KeyMissing(key)
          THEN /\ stdout' = Append(stdout, Say(mKeyRequired))
               /\ Return
               /\ UNCHANGED <<apiKey, outputDir>>
          ELSE IF second.st # "ok"
          THEN /\ Exit(IF second.st = "help" THEN 0 ELSE 2)
               /\ apiKey' = key
               /\ outputDir' = OutputDirFlag(args)
               /\ UNCHANGED stdout
          ELSE /\ apiKey' = FlagValue(second, sKey, key)
               /\ outputDir' = OutputDirFlag(args)
               /\ pc' = "client"
               /\ UNCHANGED <<stdout, exitCode>>
    /\ UNCHANGED <<args, fs0, prompt, remote, resp, parseOk, files, idx, dirs, disk>>

\* main.go:31-36
NewClient ==
    /\ pc = "client"
    /\ \E err \in BOOLEAN :
        IF err
        THEN /\ stdout' = Append(stdout, Say(mClientErr))
             /\ Return
        ELSE /\ pc' = "prompt"
             /\ UNCHANGED <<stdout, exitCode>>
    /\ UNCHANGED <<args, fs0, prompt, apiKey, outputDir, remote, resp, parseOk, files, idx, dirs, disk>>

\* main.go:37-73: the cue is printed, one line is read, the request is built.
\* The answer of the remote generator is the environment's, whatever the prompt.
ReadPrompt ==
    /\ pc = "prompt"
    /\ stdout' = Append(stdout, Say(mCue))
    /\ prompt' \in Prompts
    /\ pc' = "generate"
    /\ UNCHANGED <<args, fs0, apiKey, outputDir, remote, resp, parseOk, files, idx,
                   dirs, disk, exitCode>>

\* main.go:76-80
GenerateContent ==
    /\ pc = "generate"
    /\ IF remote.kind = "error"
       THEN /\ stdout' = Append(stdout, Say(mGenerateErr))
            /\ Return
            /\ UNCHANGED resp
       ELSE /\ resp' = remote
            /\ pc' = "check"
            /\ UNCHANGED <<stdout, exitCode>>
    /\ UNCHANGED <<args, fs0, prompt, apiKey, outputDir, remote, parseOk, files, idx, dirs, disk>>

\* main.go:83-86.  The condition reads resp.Candidates[0].Content.Parts: on a
\* first candidate whose Content is nil it panics.
CheckResponse ==
    /\ pc = "check"
    /\ IF resp.kind = "nocontent"
       THEN /\ Exit(2)
            /\ UNCHANGED stdout
       ELSE IF resp.kind \in {"nocandidates", "noparts"}
       THEN /\ stdout' = Append(stdout, Say(mNoResponse))
            /\ Return
       ELSE /\ pc' = "print"
            /\ UNCHANGED <<stdout, exitCode>>
    /\ UNCHANGED <<args, fs0, prompt, apiKey, outputDir, remote, resp, parseOk, files, idx, dirs, disk>>

\* main.go:89-100 (json.MarshalIndent of the part cannot fail)
PrintResponse ==
    /\ pc = "print"
    /\ stdout' = Append(stdout, Say(mApiResponse))
    /\ pc' = "decode"
    /\ UNCHANGED <<args, fs0, prompt, apiKey, outputDir, remote, resp, parseOk, files, idx,
                   dirs, disk, exitCode>>

\* main.go:103-108, and the fall through to the end of main when err != nil.
\* The type assertion of line 104 panics on a part that is not text.
Decode ==
    /\ pc = "decode"
    /\ IF resp.kind # "text"
       THEN /\ Exit(2)
            /\ UNCHANGED <<parseOk, files, stdout>>
       ELSE /\ \E r \in {Unmarshal(TrimSpace(resp.text))} :
                 IF r.ok
                 THEN /\ parseOk' = TRUE
                      /\ files' = r.files
                      /\ stdout' = Append(stdout,
                            Msg(mParsed, Len(r.files), <<>>, <<>>))
                      /\ pc' = "mkout"
                      /\ UNCHANGED exitCode
                 ELSE /\ files' = r.files
                      /\ Return
                      /\ UNCHANGED <<parseOk, stdout>>
    /\ UNCHANGED <<args, fs0, prompt, apiKey, outputDir, remote, resp, idx, dirs, disk>>

\* main.go:111-114
MkOutputDir ==
    /\ pc = "mkout"
    /\ \E fault \in MkdirFaults(outputDir, dirs, disk) :
        LET m == MkdirAll(outputDir, dirs, disk, fault) IN
        /\ dirs' = m.dirs
        /\ IF m.err
           THEN /\ stdout' = Append(stdout, Say(mOutErr))
                /\ Return
           ELSE /\ pc' = "loop"
                /\ UNCHANGED <<stdout, exitCode>>
    /\ UNCHANGED <<args, fs0, prompt, apiKey, outputDir, remote, resp, parseOk, files, idx, disk>>

\* the faults os.WriteFile(path, data) can meet
WriteFaults(data) ==
    {[kind |-> "none", n |-> 0], [kind |-> "open", n |-> 0], [kind |-> "close", n |-> 0]}
        \cup {[kind |-> "short", n |-> n] : n \in 0..(Len(data) - 1)}

\* mutant: a failed record ends the run
Continue_Return == Return

\* main.go:123, 129: continue, and the end of the loop body
Continue == UNCHANGED <<pc, exitCode>>

\* main.go:117-133: one iteration of the loop over files
WriteOne ==
    /\ pc = "loop"
    /\ idx < Len(files)
    /\ LET file == files[idx + 1]
           fullPath == Join(outputDir, file.Name)
           dir == Dir(fullPath)
       IN \E fault \in MkdirFaults(dir, dirs, disk), wf \in WriteFaults(file.Code) :
           LET m == MkdirAll(dir, dirs, disk, fault)
               w == WriteFile(fullPath, file.Code, m.dirs, disk, wf.kind, wf.n)
           IN /\ dirs' = m.dirs
              /\ IF m.err
                 THEN /\ wf.kind = "none"
                      /\ stdout' = Append(stdout,
                            Msg(mMkdirErr, 0, file.Name, <<>>))
                      /\ UNCHANGED disk
                      /\ Continue
                 ELSE IF w.err
                 THEN /\ disk' = w.disk
                      /\ stdout' = Append(stdout, Msg(mWriteErr, 0, file.Name, <<>>))
                      /\ Continue
                 ELSE /\ disk' = w.disk
                      /\ stdout' = Append(stdout,
                            Msg(mWritten, idx + 1, file.Name, fullPath))
                      /\ UNCHANGED <<pc, exitCode>>
    /\ idx' = idx + 1
    /\ UNCHANGED <<args, fs0, prompt, apiKey, outputDir, remote, resp, parseOk, files>>

\* main.go:135
Summary ==
    /\ pc = "loop"
    /\ idx = Len(files)
    /\ stdout' = Append(stdout,
          Msg(mSummary, 0, <<>>, outputDir))
    /\ Return
    /\ UNCHANGED <<args, fs0, prompt, apiKey, outputDir, remote, resp, parseOk, files, idx, dirs, disk>>

Next ==
    \/ ParseFlags
    \/ NewClient
    \/ ReadPrompt
    \/ GenerateContent
    \/ CheckResponse
    \/ PrintResponse
    \/ Decode
    \/ MkOutputDir
    \/ WriteOne
    \/ Summary

Spec == Init /\ [][Next]_vars

SpecFlags == InitFlags /\ [][Next]_vars

-----------------------------------------------------------------------------
(* Vocabulary of the properties *)

Last(s) == s[Len(s)]

\* where the run's messages about its records start
ParsedAt == CHOOSE j \in 1..Len(stdout) : stdout[j].msg = mParsed

\* the message printed for the k-th record of the array
RecordMsg(k) == stdout[ParsedAt + k]

IsWritten(k) == RecordMsg(k).msg = mWritten

\* the records the loop has dealt with so far
Handled == IF pc = "loop" THEN idx ELSE Len(files)

NoIOFailure == \A j \in 1..Len(stdout) : stdout[j].msg \notin {mOutErr, mMkdirErr, mWriteErr}

\* the run went through the whole loop and returned from the end of main
LoopDone == pc = "done" /\ parseOk /\ Last(stdout).msg = mSummary

FsUnchanged == dirs = fs0.dirs /\ disk = fs0.disk

\* p lies below directory d
Under(d, p) == Len(p) > Len(d) + 1 /\ SubSeq(p, 1, Len(d) + 1) = d \o sSlash

\* the response text read as a JSON value, as a reader of the text would
Tree == ParseJSON(TrimSpace(resp.text))

HasString(v, key) ==
    \E a \in 1..Len(v.items) : v.items[a].key = key /\ v.items[a].val.t = "str"

StringOf(v, key) ==
    v.items[CHOOSE a \in 1..Len(v.items) : v.items[a].key = key].val.s

\* the schema main declares (main.go:43-61): an object with the two required strings
MeetsSchema(v) == v.t = "obj" /\ HasString(v, sFileName) /\ HasString(v, sSourceCode)

\* a well-formed record: exactly the two fields
IsRecord(v) == MeetsSchema(v) /\ Len(v.items) = 2

IsRecordArray(r) ==
    r.ok /\ r.v.t = "arr" /\ \A k \in 1..Len(r.v.items) : IsRecord(r.v.items[k])

RelativeNoDotDot(n) ==
    /\ n # <<>>
    /\ n[1] # "/"
    /\ \A k \in 1..Len(Split(n)) : Split(n)[k] # sDotDot

\* a name made of ordinary segments only
PlainName(n) ==
    /\ n # <<>>
    /\ \A k \in 1..Len(Split(n)) : Split(n)[k] \notin {<<>>, sDot, sDotDot}

-----------------------------------------------------------------------------
(* C1 *)

C1_Names(items) == \A k \in 1..Len(items) : RelativeNoDotDot(StringOf(items[k], sFileName))

C1_DistinctNames(items) ==
    \A i, j \in 1..Len(items) :
        i # j => StringOf(items[i], sFileName) # StringOf(items[j], sFileName)

C1_DistinctPaths(items) ==
    \A i, j \in 1..Len(items) :
        i # j => Join(outputDir, StringOf(items[i], sFileName))
                    # Join(outputDir, StringOf(items[j], sFileName))

C1_Outcome(items) ==
    LET paths == {RecordMsg(k).path : k \in 1..Len(items)} IN
    /\ parseOk
    /\ Last(stdout).msg = mSummary
    /\ Len(files) = Len(items)
    /\ stdout[ParsedAt].n = Len(items)
    /\ \A k \in 1..Len(items) :
        /\ IsWritten(k)
        /\ RecordMsg(k).n = k
        /\ RecordMsg(k).name = StringOf(items[k], sFileName)
        /\ Under(outputDir, RecordMsg(k).path)
        /\ RecordMsg(k).path \in DOMAIN disk
        /\ disk[RecordMsg(k).path] = StringOf(items[k], sSourceCode)
    /\ Cardinality(paths) = Len(items)
    /\ DOMAIN disk = DOMAIN fs0.disk \cup paths
    /\ \A q \in DOMAIN fs0.disk \ paths : disk[q] = fs0.disk[q]

C1_Run == pc = "done" /\ resp.kind = "text" /\ NoIOFailure /\ IsRecordArray(Tree)

\* C1 as claimed: a valid array of N well-formed records with pairwise distinct
\* relative file_name values without ".." segments, and no I/O failure: N files
\* are written under the output directory, each holding its record's
\* source_code, and N writes are reported.
C1_Original ==
    (C1_Run /\ C1_Names(Tree.v.items) /\ C1_DistinctNames(Tree.v.items))
        => C1_Outcome(Tree.v.items)

\* C1 (amended): the same, for records whose file_name values resolve to
\* pairwise distinct target paths (the output directory joined with the name),
\* not merely pairwise distinct names: the run writes exactly N files under the
\* output directory, each holding exactly its record's source_code, creates no
\* other file, and reports N parsed records and N written files.
C1_Amended ==
    (C1_Run /\ C1_Names(Tree.v.items) /\ C1_DistinctPaths(Tree.v.items))
        => C1_Outcome(Tree.v.items)

C1_Witness ==
    /\ LoopDone
    /\ NoIOFailure
    /\ Len(files) = 2
    /\ IsRecordArray(Tree)
    /\ C1_Names(Tree.v.items)
    /\ RecordMsg(1).path # RecordMsg(2).path
    /\ disk[RecordMsg(1).path] = files[1].Code
    /\ disk[RecordMsg(2).path] = files[2].Code

-----------------------------------------------------------------------------
(* C2 *)

\* C2 as claimed: when some element of the response array fails the schema (an
\* object missing file_name or source_code in particular), the parse is
\* rejected as a whole and no file is written for any record.
C2_AllOrNothing ==
    (/\ pc \in {"mkout", "loop", "done"}
     /\ resp.kind = "text"
     /\ Tree.ok
     /\ Tree.v.t = "arr"
     /\ \E k \in 1..Len(Tree.v.items) : ~MeetsSchema(Tree.v.items[k]))
        => (~parseOk /\ FsUnchanged)

-----------------------------------------------------------------------------
(* C3 *)

C3_Touched ==
    \/ dirs # fs0.dirs
    \/ disk # fs0.disk
    \/ pc = "loop"
    \/ \E j \in 1..Len(stdout) :
          stdout[j].msg \in {mOutErr, mMkdirErr, mWriteErr, mWritten, mSummary}

C3_Stages ==
    /\ apiKey # <<>>
    /\ apiKey = FlagValue(FlagParse(args, {sKey}), sKey, <<>>)
    /\ remote.kind = "text"
    /\ resp = remote
    /\ parseOk
    /\ Len(stdout) >= 3
    /\ stdout[1] = Say(mCue)
    /\ stdout[2] = Say(mApiResponse)
    /\ stdout[3].msg = mParsed

\* a response without a first candidate holding a part
C3_EmptyResponse == resp.kind \in {"nocandidates", "nocontent", "noparts"}

C3_Stops ==
    /\ (apiKey = <<>> /\ pc = "done") => stdout = <<Say(mKeyRequired)>>
    /\ (apiKey # <<>> /\ pc = "done" /\ resp.kind = "none")
          => \/ stdout = <<Say(mClientErr)>>
             \/ (remote.kind = "error" /\ stdout = <<Say(mCue), Say(mGenerateErr)>>)
    /\ (pc \notin {"generate", "check"} /\ C3_EmptyResponse)
          => (pc = "done" /\ stdout = <<Say(mCue), Say(mNoResponse)>>)
    /\ (pc \in {"done", "exit"} /\ ~parseOk) => FsUnchanged

\* C3 as claimed: a directory creation or a file write happens only after the
\* key was found non-empty, the client was made, the generation call returned
\* a candidate with a part, and the response text parsed, in this order; a run
\* that stops at a missing key, a client failure, an API failure or an empty
\* response prints its diagnostic and leaves the filesystem as it found it.
C3_OnlyAfterParse == (C3_Touched => C3_Stages) /\ C3_Stops

-----------------------------------------------------------------------------
(* C4 *)

\* C4: a record whose directory creation or write fails is reported and
\* skipped, and the loop goes on: every record of the array gets its turn and
\* exactly one message, a confirmation when it was written (the file is then
\* there, holding its content unless a later record has the same target) and
\* an error naming it otherwise.
C4_BatchContinues ==
    (parseOk /\ pc \in {"loop", "done"} /\ Last(stdout).msg # mOutErr) =>
        /\ Len(stdout) = ParsedAt + Handled + (IF pc = "done" THEN 1 ELSE 0)
        /\ pc = "done" => Last(stdout) = Msg(mSummary, 0, <<>>, outputDir)
        /\ \A k \in 1..Handled :
            /\ RecordMsg(k).name = files[k].Name
            /\ RecordMsg(k).msg \in {mWritten, mMkdirErr, mWriteErr}
            /\ IsWritten(k) =>
                /\ RecordMsg(k).n = k
                /\ RecordMsg(k).path \in DOMAIN disk
                /\ (\A l \in (k + 1)..Handled :
                        Join(outputDir, files[l].Name) # RecordMsg(k).path)
                      => disk[RecordMsg(k).path] = files[k].Code

C4_Witness ==
    /\ LoopDone
    /\ Len(files) = 3
    /\ IsWritten(1)
    /\ ~IsWritten(2)
    /\ IsWritten(3)
    /\ disk[RecordMsg(3).path] = files[3].Code

-----------------------------------------------------------------------------
(* C5 *)

\* C5 as claimed: when records share a file_name, the file at that path ends
\* up holding the source_code of the last record of that name (the writes
\* being taken to succeed).
C5_Original ==
    (LoopDone /\ NoIOFailure) =>
        \A i, j \in 1..Len(files) :
            (/\ i < j
             /\ files[i].Name = files[j].Name
             /\ \A l \in (j + 1)..Len(files) : files[l].Name # files[j].Name)
                => disk[RecordMsg(j).path] = files[j].Code

\* C5 (amended): when two or more records resolve to the same target path (as
\* records of the same file_name do) and the last of them in array order is
\* written without error, the file at that path ends up holding exactly that
\* last record's source_code, nothing of the earlier ones.
C5_Amended ==
    LoopDone =>
        \A i, j \in 1..Len(files) :
            (/\ i < j
             /\ Join(outputDir, files[i].Name) = Join(outputDir, files[j].Name)
             /\ \A l \in (j + 1)..Len(files) :
                    Join(outputDir, files[l].Name) # Join(outputDir, files[j].Name)
             /\ IsWritten(j))
                => /\ RecordMsg(j).path \in DOMAIN disk
                   /\ disk[RecordMsg(j).path] = files[j].Code

C5_Witness ==
    /\ LoopDone
    /\ Len(files) = 2
    /\ files[1].Name = files[2].Name
    /\ files[1].Code # files[2].Code
    /\ IsWritten(1)
    /\ IsWritten(2)
    /\ disk[RecordMsg(2).path] = files[2].Code

-----------------------------------------------------------------------------
(* C6 *)

\* C6 as claimed: the output directory is the value given with -output when
\* the flag is on the command line and "output" when it is not, and a run with
\* a non-empty -key goes on with that directory.
C6_OutputFlag ==
    (/\ pc # "flags"
     /\ FlagParse(args, {sKey, sOutput}).st = "ok"
     /\ FlagValue(FlagParse(args, {sKey, sOutput}), sKey, <<>>) # <<>>)
        => outputDir = FlagValue(FlagParse(args, {sKey, sOutput}), sOutput, sOutput)

-----------------------------------------------------------------------------
(* C7 *)

\* the state right after the decoding of the response text
C7_Decoded ==
    /\ resp.kind = "text"
    /\ \/ pc = "mkout"
       \/ (pc = "done" /\ ~parseOk /\ Last(stdout) = Say(mApiResponse))

\* C7: white space added before or after the response text changes nothing:
\* the padded text decodes to the outcome the run got from the text itself
\* (the same verdict and the same records, on which all that follows depends).
C7_TrimInvariant ==
    C7_Decoded =>
        \A l \in Pads, r \in Pads :
            Unmarshal(TrimSpace(l \o resp.text \o r)) = [ok |-> parseOk, files |-> files]

C7_Witness ==
    /\ pc = "mkout"
    /\ resp.text # <<>>
    /\ resp.text[1] = "\f"
    /\ Last(resp.text) = " "
    /\ parseOk
    /\ Len(files) = 1

-----------------------------------------------------------------------------
(* C8 *)

\* C8 as claimed: the final summary does not say that all files were written
\* when a record failed.
C8_HonestSummary ==
    (pc = "done" /\ parseOk /\ ~NoIOFailure) => Last(stdout).msg # mSummary

-----------------------------------------------------------------------------
(* C9 *)

\* C9: a record is written at the output directory joined with its file_name,
\* unfiltered: a plain name lands at outputDir/name with every directory on
\* the way in place, and a name that climbs with ".." is not refused and lands
\* outside the output directory.
C9_JoinedPath ==
    (parseOk /\ pc \in {"loop", "done"} /\ Last(stdout).msg # mOutErr) =>
        \A k \in 1..Handled :
            IsWritten(k) =>
                /\ PlainName(files[k].Name)
                      => RecordMsg(k).path = outputDir \o sSlash \o files[k].Name
                /\ (HasAt(files[k].Name, 1, <<".",".","/">>) /\ PlainName(Drop(files[k].Name, 3)))
                      => /\ RecordMsg(k).path = Drop(files[k].Name, 3)
                         /\ ~Under(outputDir, RecordMsg(k).path)
                /\ RecordMsg(k).path \in DOMAIN disk
                /\ \A a \in 1..(Len(PrefixPaths(RecordMsg(k).path)) - 1) :
                      IsDir(PrefixPaths(RecordMsg(k).path)[a], dirs)
                /\ (pc = "loop" /\ k = idx) => disk[RecordMsg(k).path] = files[k].Code

C9_Witness ==
    /\ LoopDone
    /\ Len(files) = 2
    /\ IsWritten(1)
    /\ IsWritten(2)
    /\ files[1].Name = <<"d","/","b">>
    /\ <<"o","u","t","p","u","t","/","d">> \in dirs
    /\ files[2].Name = <<".",".","/","e">>
    /\ <<"e">> \in DOMAIN disk

-----------------------------------------------------------------------------
(* C10 *)

C10_Silent ==
    /\ ~parseOk
    /\ FsUnchanged
    /\ stdout = <<Say(mCue), Say(mApiResponse)>>
    /\ exitCode = 0

\* C10 as claimed: a response text that is not valid JSON or not an array of
\* objects ends the run silently: no file, no output directory, no message
\* after the raw response, a normal exit.
C10_Original ==
    (/\ pc = "done"
     /\ resp.kind = "text"
     /\ \/ ~Tree.ok
        \/ Tree.v.t # "arr"
        \/ \E k \in 1..Len(Tree.v.items) : Tree.v.items[k].t # "obj")
        => C10_Silent

\* C10 (amended): the run ends silently when the trimmed text is not valid
\* JSON, or is a value other than an array or null, or is an array with an
\* element that is neither an object nor null.  (The text null, and null
\* elements, are accepted: null decodes to no records, a null element to a
\* record with empty fields.)
C10_Amended ==
    (/\ pc = "done"
     /\ resp.kind = "text"
     /\ \/ ~Tree.ok
        \/ Tree.v.t \notin {"arr", "null"}
        \/ /\ Tree.v.t = "arr"
           /\ \E k \in 1..Len(Tree.v.items) : Tree.v.items[k].t \notin {"obj", "null"})
        => C10_Silent

C10_Witness ==
    /\ pc = "done"
    /\ resp.kind = "text"
    /\ resp.text = <<"[">> \o OneObj
    /\ C10_Silent

====
